---- MODULE Spec2Model ----
(***************************************************************************)
(* Curve editor of bevy_curve_editor (src/src/main.rs): the per-frame      *)
(* system ui_example, its viewport arithmetic and its pointer protocol.    *)
(*                                                                         *)
(* f32 quantities are modelled as exact rationals <<n, d>> (d > 0, lowest  *)
(* terms); a non-finite f32 (division by a zero range) is <<0, 0>>.        *)
(* One f32 result is rounded: the interpolated samples of the curve       *)
(* (SampleScale).  A tangent handle, whose position involves a square root, *)
(* is kept as a point and a direction, and its hit test is decided exactly. *)
(* Indices are 0-based as in the program; TLA+ sequences are 1-based, so   *)
(* keyframe i of the program is curve[i + 1].                              *)
(***************************************************************************)
EXTENDS Integers, Sequences, FiniteSets, TLC

(***************************************************************************)
(* Exact rational arithmetic standing for f32 arithmetic.                  *)
(***************************************************************************)
IAbs(n) == IF n < 0 THEN -n ELSE n

RECURSIVE GCD(_, _)
GCD(a, b) == IF b = 0 THEN a ELSE GCD(b, a % b)

Norm(n, d) ==
    LET g == GCD(IAbs(n), IAbs(d))
        s == IF d < 0 THEN -1 ELSE 1
    IN  <<(s * n) \div g, (s * d) \div g>>

R(n) == <<n, 1>>
Q(n, d) == Norm(n, d)
NonFinite == <<0, 0>>
IsFinite(a) == a[2] # 0

\* Unreduced operations (denominators stay positive); a result is reduced
\* to lowest terms once, where a program-level function returns it.
XAdd(a, b) == <<a[1] * b[2] + b[1] * a[2], a[2] * b[2]>>
XSub(a, b) == <<a[1] * b[2] - b[1] * a[2], a[2] * b[2]>>
XMul(a, b) == <<a[1] * b[1], a[2] * b[2]>>
XDiv(a, b) == IF b[1] < 0 THEN <<-(a[1] * b[2]), a[2] * (-b[1])>>
              ELSE <<a[1] * b[2], a[2] * b[1]>>
Reduce(a) == Norm(a[1], a[2])
\* Difference over the least common denominator, not reduced further.
LSub(a, b) ==
    LET g == GCD(a[2], b[2])
    IN  <<a[1] * (b[2] \div g) - b[1] * (a[2] \div g), (a[2] \div g) * b[2]>>

RAdd(a, b) ==
    LET g == GCD(a[2], b[2])
    IN  Norm(a[1] * (b[2] \div g) + b[1] * (a[2] \div g), (a[2] \div g) * b[2])
RNeg(a) == <<-a[1], a[2]>>
RSub(a, b) == RAdd(a, RNeg(b))
RMul(a, b) ==
    LET g1 == GCD(IAbs(a[1]), b[2])
        g2 == GCD(IAbs(b[1]), a[2])
        h1 == IF g1 = 0 THEN 1 ELSE g1
        h2 == IF g2 = 0 THEN 1 ELSE g2
    IN  Norm((a[1] \div h1) * (b[1] \div h2), (a[2] \div h2) * (b[2] \div h1))
RInv(a) == Norm(a[2], a[1])
RDiv(a, b) == RMul(a, RInv(b))
RLt(a, b) == a[1] * b[2] < b[1] * a[2]
RLe(a, b) == a[1] * b[2] <= b[1] * a[2]
RAbs(a) == <<IAbs(a[1]), a[2]>>
RMax(a, b) == IF RLt(a, b) THEN b ELSE a

(***************************************************************************)
(* Geometry of the interaction rectangle and the fixed radii.              *)
(***************************************************************************)
RectLeft == 10
RectTop == 20
RectW == 140
RectH == 140
RectRight == RectLeft + RectW
RectBottom == RectTop + RectH

SELECT_RADIUS == 6
USIZE_MAX == 2147483647
CURSOR_MAX == 65535

Pos(x, y) == [x |-> x, y |-> y]

\* egui::Rect::contains, both ends inclusive; a non-finite coordinate is
\* contained in nothing.
RectContains(minp, maxp, p) ==
    /\ IsFinite(p.x) /\ IsFinite(p.y)
    /\ RLe(minp.x, p.x) /\ RLe(p.x, maxp.x)
    /\ RLe(minp.y, p.y) /\ RLe(p.y, maxp.y)

InRect(p) ==
    RectContains(Pos(R(RectLeft), R(RectTop)), Pos(R(RectRight), R(RectBottom)), p)

lerp_unclamped(a, b, t) == RAdd(a, RMul(RSub(b, a), t))

remap(min, max, t, out_min, out_max) ==
    IF max = min
    THEN NonFinite
    ELSE LET n == Reduce(XDiv(LSub(t, min), LSub(max, min)))
         IN  Reduce(XAdd(out_min, XMul(LSub(out_max, out_min), n)))

\* Curve display range (lines 160-161).
ViewMin(off) == off
ViewMax(off, rng) == Pos(RAdd(off.x, rng.x), RAdd(off.y, rng.y))

\* Screen position of a curve-space point (lines 330-333).
ToScreen(off, rng, t, v) ==
    Pos(remap(off.x, RAdd(off.x, rng.x), t, R(RectLeft), R(RectRight)),
        remap(off.y, RAdd(off.y, rng.y), v, R(RectBottom), R(RectTop)))

\* Curve-space coordinates of a screen point (lines 291, 344, 349).
ToCurveX(off, rng, px) ==
    remap(R(RectLeft), R(RectRight), px, off.x, RAdd(off.x, rng.x))
ToCurveY(off, rng, py) ==
    remap(R(RectBottom), R(RectTop), py, off.y, RAdd(off.y, rng.y))

(***************************************************************************)
(* The keyframe curve (CurveVariable<f32>), whose code is outside          *)
(* src/: modelled from sections 3, 4.1 and 4.2 of the specification.       *)
(* Collision policy: an insert or a set_time onto an existing time is      *)
(* rejected and leaves the curve unchanged.                                *)
(***************************************************************************)
NoIndex == -1

Key(t, v, mode, ctl, tin, tout) ==
    [time |-> t, value |-> v, interpolation |-> mode, tangent_control |-> ctl,
     in_tangent |-> tin, out_tangent |-> tout]

CurveLen(c) == Len(c)
ValidIndex(c, i) == i >= 0 /\ i < Len(c)

Secant(c, a, b) ==
    RDiv(RSub(c[b].value, c[a].value), RSub(c[b].time, c[a].time))

AutoTangent(c, j) ==
    IF Len(c) < 2 THEN R(0)
    ELSE IF j = 1 THEN Secant(c, 1, 2)
    ELSE IF j = Len(c) THEN Secant(c, j - 1, j)
    ELSE Secant(c, j - 1, j + 1)

Retangent(c) ==
    [j \in 1..Len(c) |->
        IF c[j].tangent_control = "Auto"
        THEN [c[j] EXCEPT !.in_tangent = AutoTangent(c, j),
                          !.out_tangent = AutoTangent(c, j)]
        ELSE IF c[j].tangent_control = "Flat"
        THEN [c[j] EXCEPT !.in_tangent = R(0), !.out_tangent = R(0)]
        ELSE c[j]]

RemoveAt(c, j) == SubSeq(c, 1, j - 1) \o SubSeq(c, j + 1, Len(c))
InsertAt(c, j, k) == SubSeq(c, 1, j - 1) \o <<k>> \o SubSeq(c, j, Len(c))

\* Number of keyframes strictly before time t: the 0-based slot of t.
SlotOf(c, t) == Cardinality({j \in 1..Len(c) : RLt(c[j].time, t)})
HasTime(c, t) == \E j \in 1..Len(c) : c[j].time = t

with_auto_tangents(times, values) ==
    Retangent([j \in 1..Len(times) |->
        Key(times[j], values[j], "Hermite", "Auto", R(0), R(0))])

CurveInsert(c, t, v, mode) ==
    IF HasTime(c, t)
    THEN [curve |-> c, ret |-> NoIndex]
    ELSE LET k == SlotOf(c, t)
         IN  [curve |-> Retangent(InsertAt(c, k + 1, Key(t, v, mode, "Auto", R(0), R(0)))),
              ret |-> k]

CurveRemove(c, i) ==
    IF ValidIndex(c, i) THEN Retangent(RemoveAt(c, i + 1)) ELSE c

CurveSetValue(c, i, v) ==
    IF ValidIndex(c, i)
    THEN Retangent([c EXCEPT ![i + 1].value = v])
    ELSE c

\* Variant: the time is overwritten in place, without re-sorting.
CurveSetTimeInPlace(c, i, t) ==
    IF ~ValidIndex(c, i) THEN [curve |-> c, ret |-> NoIndex]
    ELSE [curve |-> [c EXCEPT ![i + 1].time = t], ret |-> NoIndex]
CurveSetTime(c, i, t) ==
    IF ~ValidIndex(c, i) THEN [curve |-> c, ret |-> NoIndex]
    ELSE LET rest == RemoveAt(c, i + 1)
         IN  IF HasTime(rest, t) THEN [curve |-> c, ret |-> NoIndex]
             ELSE LET k == SlotOf(rest, t)
                      moved == InsertAt(rest, k + 1, [c[i + 1] EXCEPT !.time = t])
                  IN  [curve |-> Retangent(moved),
                       ret |-> IF k = i THEN NoIndex ELSE k]

CurveSetInterpolation(c, i, mode) ==
    IF ValidIndex(c, i) THEN [c EXCEPT ![i + 1].interpolation = mode] ELSE c

CurveSetTangentControl(c, i, ctl) ==
    IF ValidIndex(c, i)
    THEN Retangent([c EXCEPT ![i + 1].tangent_control = ctl])
    ELSE c

\* A sampled value is an f32; the model keeps SampleScale steps per unit and
\* rounds down, so that sampled values stay representable.
SampleScale == 64
Fix(a) == (a[1] * SampleScale) \div a[2]
Unfix(n) == Q(n, SampleScale)

\* Cubic Hermite on the unit interval, tangents scaled by the time span:
\*   (2u^3 - 3u^2 + 1) v0 + (u^3 - 2u^2 + u) dt m0
\*     + (-2u^3 + 3u^2) v1 + (u^3 - u^2) dt m1,
\* evaluated in powers of u on the sample grid.
Hermite(v0, m0, v1, m1, dt, u) ==
    LET U == Fix(u)
        dv == Fix(RSub(v1, v0))
        t0 == Fix(RMul(dt, m0))
        t1 == Fix(RMul(dt, m1))
        c3 == t0 + t1 - 2 * dv
        c2 == 3 * dv - 2 * t0 - t1
        p3 == (U * c3) \div SampleScale
        p2 == (U * (c2 + p3)) \div SampleScale
        p1 == (U * (t0 + p2)) \div SampleScale
    IN  Unfix(Fix(v0) + p1)

Segment(c, j, t) ==
    LET a == c[j]
        b == c[j + 1]
        dt == RSub(b.time, a.time)
        u == RDiv(RSub(t, a.time), dt)
    IN  IF a.interpolation = "Step" THEN a.value
        ELSE IF a.interpolation = "Linear"
        THEN Unfix(Fix(lerp_unclamped(a.value, b.value, u)))
        ELSE Hermite(a.value, a.out_tangent, b.value, b.in_tangent, dt, u)

\* 1-based index of the last keyframe whose time is <= t.
LeftOf(c, t) == Cardinality({j \in 1..Len(c) : RLe(c[j].time, t)})

Sample(c, t) ==
    IF Len(c) = 0 THEN R(0)
    ELSE IF RLe(t, c[1].time) THEN c[1].value
    ELSE IF RLe(c[Len(c)].time, t) THEN c[Len(c)].value
    ELSE Segment(c, LeftOf(c, t), t)

(***************************************************************************)
(* Editor state (struct CurveEditor) and history variables.                *)
(***************************************************************************)
VARIABLES
    dragging,            \* CurveEditor.dragging
    selected_keyframe,   \* CurveEditor.selected_keyframe (USIZE_MAX: none)
    display_offset,      \* CurveEditor.display_offset
    display_range,       \* CurveEditor.display_range
    curve,               \* CurveEditor.curve
    tangent_drag,        \* CurveEditor.tangent_drag
    popup_open,          \* egui memory: the context menu is open
    frames,              \* number of frames run so far
    last                 \* what the latest frame read and did (history)

vars == <<dragging, selected_keyframe, display_offset, display_range, curve,
          tangent_drag, popup_open, frames, last>>

MaxFrames == 2

NoPointer == [some |-> FALSE, x |-> R(-1), y |-> R(-1)]
At(x, y) == [some |-> TRUE, x |-> R(x), y |-> R(y)]
NoPan == [on |-> FALSE, dx |-> R(0), dy |-> R(0)]
PanBy(dx, dy) == [on |-> TRUE, dx |-> R(dx), dy |-> R(dy)]

\* One frame's input snapshot.
Input(hover, down, keyI, keyD, pan, scroll, command, secondary, choice) ==
    [hover |-> hover, pointer_down |-> down, key_i |-> keyI, key_d |-> keyD,
     pan |-> pan, scroll |-> R(scroll), command |-> command,
     secondary |-> secondary, choice |-> choice]


(***************************************************************************)
(* Input handling: pan and zoom (lines 107-151).                           *)
(***************************************************************************)
Pan(off, rng, pan) ==
    LET dx == remap(R(0), R(-RectW), pan.dx, R(0), rng.x)
        dy == remap(R(0), R(RectH), pan.dy, R(0), rng.y)
    IN  [off |-> Pos(RAdd(off.x, dx), RAdd(off.y, dy)), rng |-> rng]

\* Window-relative pointer position (lines 125-126).
WindowRelX(px) == RSub(px, R(RectLeft))
\* Variant: the pointer height is taken from the top edge, without the flip.
WindowRelYNoFlip(py) == RSub(py, R(RectTop))
WindowRelY(py) == RSub(R(RectH), RSub(py, R(RectTop)))

ZoomY(off, rng, hover, delta) ==
    LET n == RDiv(R(1), R(-RectH))
        dy == RMul(RMul(delta, n), rng.y)
        y == RMul(WindowRelY(hover.y), n)
        y0 == RMul(y, rng.y)
        ry == RAdd(rng.y, dy)
        y1 == RMul(y, ry)
    IN  [off |-> Pos(off.x, RAdd(off.y, RSub(y1, y0))), rng |-> Pos(rng.x, ry)]

ZoomX(off, rng, hover, delta) ==
    LET n == RDiv(R(1), R(-RectW))
        dx == RMul(RMul(delta, n), rng.x)
        x == RMul(WindowRelX(hover.x), n)
        x0 == RMul(x, rng.x)
        rx == RAdd(rng.x, dx)
        x1 == RMul(x, rx)
    IN  [off |-> Pos(RAdd(off.x, RSub(x1, x0)), off.y), rng |-> Pos(rx, rng.y)]

Zoom(off, rng, hover, delta, command) ==
    IF command THEN ZoomY(off, rng, hover, delta) ELSE ZoomX(off, rng, hover, delta)

\* "pan", "zoomx", "zoomy" or "none": the branch the frame takes.
ViewKind(in) ==
    IF in.pan.on THEN "pan"
    ELSE IF in.hover.some THEN (IF in.command THEN "zoomy" ELSE "zoomx")
    ELSE "none"

\* Variant: the scroll is applied whenever the pointer hovers, pan or not.
ViewStepZoomFirst(off, rng, in) ==
    IF in.hover.some THEN Zoom(off, rng, in.hover, in.scroll, in.command)
    ELSE IF in.pan.on THEN Pan(off, rng, in.pan)
    ELSE [off |-> off, rng |-> rng]
ViewStep(off, rng, in) ==
    IF in.pan.on THEN Pan(off, rng, in.pan)
    ELSE IF in.hover.some THEN Zoom(off, rng, in.hover, in.scroll, in.command)
    ELSE [off |-> off, rng |-> rng]

(***************************************************************************)
(* Context menu (lines 164-250).                                           *)
(***************************************************************************)
MenuChoices == {"Step", "Linear", "Auto", "Free", "Flat", "Broken"}

\* Variant: with nothing selected the menu addresses the first keyframe.
MenuIndexOrFirst(sel) == IF sel = USIZE_MAX THEN 0 ELSE sel
\* selected_keyframe.min(CurveCursor::MAX) as CurveCursor (lines 184-186).
MenuIndex(sel) == IF sel < CURSOR_MAX THEN sel ELSE CURSOR_MAX

PopupStep(open, in) ==
    IF in.choice # "none" THEN FALSE
    ELSE open \/ (in.hover.some /\ in.secondary)

MenuStep(c, sel, open, in) ==
    LET index == MenuIndex(sel)
        enabled == index < CurveLen(c)
    IN  IF ~open \/ ~enabled \/ in.choice = "none" THEN c
        ELSE IF in.choice \in {"Step", "Linear"}
        THEN CurveSetInterpolation(c, index, in.choice)
        ELSE CurveSetTangentControl(
                 CurveSetInterpolation(c, index, "Hermite"), index, in.choice)

(***************************************************************************)
(* dot (lines 68-98): <<select, press>> of one hit circle.                 *)
(***************************************************************************)
Hovered(pointer, position, select_radius) ==
    RectContains(
        Pos(XSub(position.x, R(select_radius)), XSub(position.y, R(select_radius))),
        Pos(XAdd(position.x, R(select_radius)), XAdd(position.y, R(select_radius))),
        pointer)

\* The three branches of dot (lines 84-97), given the result of rect.contains.
dot_branch(hovered, pointer_down, selected) ==
    IF hovered
    THEN <<selected \/ pointer_down, pointer_down>>
    ELSE IF selected THEN <<TRUE, FALSE>>
    ELSE <<FALSE, FALSE>>

dot(pointer, pointer_down, selected, position, select_radius) ==
    dot_branch(Hovered(pointer, position, select_radius), pointer_down, selected)


(***************************************************************************)
(* Tangent handles (lines 55-65, 360-449).                                 *)
(***************************************************************************)
HANDLE_LENGTH == 50
TANGENT_LIMIT == 100000

\* to_dir up to the positive factor cos(atan a), which normalized() cancels.
to_dir(a) == Pos(R(1), a)

\* to_tangent followed by clamp(-1e5, 1e5); v is a curve-space vector.
to_tangent(v) ==
    IF v.x[1] = 0
    THEN (IF v.y[1] > 0 THEN R(TANGENT_LIMIT)
          ELSE IF v.y[1] < 0 THEN R(-TANGENT_LIMIT) ELSE R(0))
    ELSE LET m == RDiv(v.y, v.x)
             whole == m[1] \div m[2]
         IN  IF whole > TANGENT_LIMIT \/ (whole = TANGENT_LIMIT /\ m[1] % m[2] > 0)
             THEN R(TANGENT_LIMIT)
             ELSE IF whole < -TANGENT_LIMIT THEN R(-TANGENT_LIMIT)
             ELSE m

\* The sign of a/b - c/d for a, c >= 0 and b, d > 0, by continued fractions.
RECURSIVE FracCmp(_, _, _, _)
FracCmp(a, b, c, d) ==
    IF a \div b # c \div d THEN (IF a \div b > c \div d THEN 1 ELSE -1)
    ELSE IF a % b = 0 /\ c % d = 0 THEN 0
    ELSE IF c % d = 0 THEN 1
    ELSE IF a % b = 0 THEN -1
    ELSE FracCmp(d, c % d, b, a % b)

\* The sign of c^2 / (c^2 + o^2) - (n / dn)^2, for c # 0 and 0 < |n| <= dn.
SqCmp(c, o, n, dn) ==
    IF o = 0 THEN (IF IAbs(n) = dn THEN 0 ELSE 1)
    ELSE IF IAbs(n) = dn THEN -1
    ELSE FracCmp(IAbs(c) * (dn - IAbs(n)), IAbs(o) * IAbs(n),
                 IAbs(n) * IAbs(o), (dn + IAbs(n)) * IAbs(c))

\* c / sqrt(c^2 + o^2) >= rho: a component of normalized() against a rational.
UnitGe(c, o, rho) ==
    IF rho[1] <= -rho[2] THEN TRUE
    ELSE IF rho[1] > rho[2] THEN FALSE
    ELSE IF rho[1] = 0 THEN c >= 0
    ELSE IF rho[1] < 0 THEN (c >= 0 \/ SqCmp(c, o, rho[1], rho[2]) <= 0)
    ELSE (c > 0 /\ SqCmp(c, o, rho[1], rho[2]) >= 0)
UnitLe(c, o, rho) == UnitGe(-c, o, RNeg(rho))

\* The direction of the vector d as a pair of coprime integers; <<0, 0>> for
\* the zero vector, which normalized() leaves zero.
Direction(d) ==
    LET g == GCD(d.x[2], d.y[2])
        X == d.x[1] * (d.y[2] \div g)
        Y == d.y[1] * (d.x[2] \div g)
        h == GCD(IAbs(X), IAbs(Y))
    IN  IF h = 0 THEN <<0, 0>> ELSE <<X \div h, Y \div h>>

\* lo <= 50 * c / sqrt(c^2 + o^2) <= hi, where lo = mid - radius, hi = mid + radius.
Within(c, o, mid, radius) ==
    /\ UnitGe(c, o, RDiv(RSub(mid, R(radius)), R(HANDLE_LENGTH)))
    /\ UnitLe(c, o, RDiv(RAdd(mid, R(radius)), R(HANDLE_LENGTH)))

\* rect.contains(pointer_position) of dot (lines 78-84) for the handle
\* h.position + normalized(h.dir) * 50.0 (lines 374, 383).
HandleHovered(pointer, h, select_radius) ==
    IF h.dir = <<0, 0>> THEN Hovered(pointer, h.position, select_radius)
    ELSE /\ IsFinite(pointer.x) /\ IsFinite(pointer.y)
         /\ Within(h.dir[1], h.dir[2], RSub(pointer.x, h.position.x), select_radius)
         /\ Within(h.dir[2], h.dir[1], RSub(pointer.y, h.position.y), select_radius)

\* Screen direction of a handle: screen((t, v) + sign * to_dir(m)) - position.
HandleDir(off, rng, t, v, m, sign, position) ==
    CHOOSE d \in {Pos(RSub(tip.x, position.x), RSub(tip.y, position.y)) :
                  tip \in {ToScreen(off, rng, RAdd(t, RMul(R(sign), to_dir(m).x)),
                                    RAdd(v, RMul(R(sign), to_dir(m).y)))}} : TRUE

\* The handle of tangent m (lines 369-374, 378-383): the point 50 pixels from
\* position in the direction dir.
Handle(off, rng, t, v, m, sign, position) ==
    CHOOSE a \in {[position |-> position, dir |-> Direction(d)] :
                  d \in {HandleDir(off, rng, t, v, m, sign, position)}} : TRUE

\* The tangent setters of the curve: no-ops on Auto and Flat keyframes; outside
\* Broken the two sides are kept equal whichever setter is called.
Editable(c, i) == ValidIndex(c, i) /\ c[i + 1].tangent_control \notin {"Auto", "Flat"}
CurveSetInOutTangent(c, i, m) ==
    IF Editable(c, i)
    THEN [c EXCEPT ![i + 1].in_tangent = m, ![i + 1].out_tangent = m]
    ELSE c
CurveSetInTangent(c, i, m) ==
    IF Editable(c, i) /\ c[i + 1].tangent_control = "Broken"
    THEN [c EXCEPT ![i + 1].in_tangent = m]
    ELSE CurveSetInOutTangent(c, i, m)
CurveSetOutTangent(c, i, m) ==
    IF Editable(c, i) /\ c[i + 1].tangent_control = "Broken"
    THEN [c EXCEPT ![i + 1].out_tangent = m]
    ELSE CurveSetInOutTangent(c, i, m)

Ev(op, it, ret, sel) == [op |-> op, it |-> it, ret |-> ret, sel |-> sel]

\* Variant: a handle always writes both sides.
SetterMirrored(tangent_mode, side) == "set_in_out_tangent"
\* The setter a handle calls for a keyframe in tangent_mode (lines 411-415 for
\* the In handle, 441-445 for the Out handle).
Setter(tangent_mode, side) ==
    IF tangent_mode = "Broken"
    THEN (IF side = "In" THEN "set_in_tangent" ELSE "set_out_tangent")
    ELSE "set_in_out_tangent"

CurveSetTangent(c, op, index, m) ==
    IF op = "set_in_tangent" THEN CurveSetInTangent(c, index, m)
    ELSE IF op = "set_out_tangent" THEN CurveSetOutTangent(c, index, m)
    ELSE CurveSetInOutTangent(c, index, m)

\* Record of one setter call: the handle, the setter, the keyframe index and the
\* selection at the call, the keyframe before and after it, and the slope.
Edit(side, op, i, sel, before, after, slope) ==
    [side |-> side, op |-> op, it |-> i, sel |-> sel, before |-> before,
     after |-> after, slope |-> slope]

\* to_tangent(p - (t, v)).clamp(-1e5, 1e5), p the pointer in curve space
\* (lines 404-409, 434-439).
PointerTangent(pointer, t, v, off, rng) ==
    CHOOSE m \in {to_tangent(w) :
                  w \in {Pos(RSub(ToCurveX(off, rng, pointer.x), t),
                             RSub(ToCurveY(off, rng, pointer.y), v))}} : TRUE

\* The tangent edit of one handle (lines 411-415, 441-445).
EditTangent(ls, i, side, tangent) ==
    LET index == i % (CURSOR_MAX + 1)
        op == Setter(ls.curve[i + 1].tangent_control, side)
    IN  CHOOSE r \in {[ls EXCEPT !.tdrag = side,
                                 !.curve = after,
                                 !.log = Append(@, Ev(op, i, NoIndex, ls.sel)),
                                 !.edits = Append(@, Edit(side, op, i, ls.sel,
                                                          ls.curve[i + 1], after[i + 1],
                                                          tangent))] :
                      after \in {CurveSetTangent(ls.curve, op, index, tangent)}} : TRUE

\* One handle drawn at a (lines 390-418 for In, 420-448 for Out).
HandleStep(ls, i, side, t, v, a, pointer, pointer_down, off, rng) ==
    IF dot_branch(HandleHovered(pointer, a, SELECT_RADIUS), pointer_down,
                  ls.tdrag = side)[1] /\ pointer_down
    THEN CHOOSE r \in {EditTangent(ls, i, side, tangent) :
                       tangent \in {PointerTangent(pointer, t, v, off, rng)}} : TRUE
    ELSE IF ls.tdrag = side THEN [ls EXCEPT !.tdrag = "No"]
    ELSE ls

\* Both handles, drawn from the tangents read before either is edited.
BothHandles(ls, i, t, v, a, b, pointer, pointer_down, off, rng) ==
    CHOOSE r \in {HandleStep(afterIn, i, "Out", t, v, b, pointer, pointer_down, off, rng) :
                  afterIn \in {HandleStep(ls, i, "In", t, v, a, pointer, pointer_down,
                                          off, rng)}} : TRUE

\* Variant: every selected keyframe has tangent handles.
HasHandlesAlways(k) == TRUE
\* The keyframe has tangent handles (lines 365, 386-389).
HasHandles(k) ==
    k.interpolation = "Hermite" /\ k.tangent_control \notin {"Auto", "Flat"}

\* Tangent display and editing of the selected keyframe (lines 360-453).
TangentStep(ls, i, t, v, position, pointer, pointer_down, off, rng) ==
    IF ~HasHandles(ls.curve[i + 1])
    THEN ls
    ELSE CHOOSE r \in {BothHandles(ls, i, t, v, a, b, pointer, pointer_down, off, rng) :
                       a \in {Handle(off, rng, t, v, ls.curve[i + 1].in_tangent, -1,
                                     position)},
                       b \in {Handle(off, rng, t, v, ls.curve[i + 1].out_tangent, 1,
                                     position)}} : TRUE


(***************************************************************************)
(* The keyframe loop (lines 325-473).                                      *)
(***************************************************************************)
DRAG_THRESHOLD == Q(1, 2)

\* Variant: the iteration is never abandoned.
NeverContinues(k) == FALSE
\* if let Some(k) = k { ...; continue } (lines 352-356): the iteration is
\* abandoned exactly when set_time reports a new index.
Continues(k) == k # NoIndex

\* Value drag (lines 343-346).
DragValue(ls, i, pointer, off, rng) ==
    CHOOSE r \in {[ls EXCEPT !.curve = CurveSetValue(@, i % (CURSOR_MAX + 1), v),
                             !.log = Append(@, Ev("set_value", i, NoIndex, ls.sel))] :
                  v \in {ToCurveY(off, rng, pointer.y)}} : TRUE

\* set_time and what follows from its result (lines 349-356).
Retimed(ls, i, st) ==
    [ls |-> [ls EXCEPT !.curve = st.curve,
                       !.sel = IF st.ret # NoIndex THEN st.ret ELSE @,
                       !.log = Append(@, Ev("set_time", i, st.ret, ls.sel))],
     skip |-> Continues(st.ret)]

\* Time drag (lines 348-357).
DragTime(ls, i, pointer, off, rng) ==
    CHOOSE r \in {Retimed(ls, i, st) :
                  st \in {CurveSetTime(ls.curve, i % (CURSOR_MAX + 1), t) :
                          t \in {ToCurveX(off, rng, pointer.x)}}} : TRUE

\* Dragging the selected keyframe (lines 341-358): the loop state after the
\* block, and whether the iteration is abandoned (the `continue`).
DragStep(ls, i, position, pointer, off, rng) ==
    CHOOSE r \in {IF RLt(DRAG_THRESHOLD, RAbs(XSub(position.x, pointer.x)))
                  THEN DragTime(valued, i, pointer, off, rng)
                  ELSE [ls |-> valued, skip |-> FALSE] :
                  valued \in {IF RLt(DRAG_THRESHOLD, RAbs(XSub(position.y, pointer.y)))
                              THEN DragValue(ls, i, pointer, off, rng)
                              ELSE ls}} : TRUE

\* Variant: a keyframe is selected only while nothing is selected.
SelectIfNone(r, i, selected, sel) ==
    IF r[1] /\ sel = USIZE_MAX THEN i ELSE sel
\* The selection after one dot (lines 466-472).
Select(r, i, selected, sel) ==
    IF r[1] THEN i ELSE IF selected THEN USIZE_MAX ELSE sel

\* The keyframe dot and the select/deselect decision (lines 455-472).
DotStep(ls, i, selected, position, pointer, pointer_down, rec) ==
    LET r == dot(pointer, pointer_down, selected, position, SELECT_RADIUS)
        hits == IF Hovered(pointer, position, SELECT_RADIUS)
                THEN ls.hits \cup {i} ELSE ls.hits
        sel == Select(r, i, selected, ls.sel)
        drg == IF r[1] THEN (ls.dragging \/ r[2]) ELSE ls.dragging
    IN  [ls EXCEPT !.sel = sel, !.dragging = drg, !.hits = hits,
                   !.log = IF rec THEN Append(@, Ev("dot", i, NoIndex, sel)) ELSE @]

\* The end of an iteration that ran the drag block, with the selection it leaves.
EndOf(ls, i) == [ls EXCEPT !.log = Append(@, Ev("end", i, NoIndex, ls.sel))]

\* The rest of an iteration whose drag block has run (lines 359-472).
AfterDrag(drag, i, t, v, position, pointer, pointer_down, off, rng) ==
    IF drag.skip THEN EndOf(drag.ls, i)
    ELSE CHOOSE r \in {EndOf(DotStep(tan, i, TRUE, position, pointer, pointer_down, TRUE), i) :
                       tan \in {TangentStep(drag.ls, i, t, v, position, pointer,
                                            pointer_down, off, rng)}} : TRUE

\* An iteration, given the keyframe's screen position (lines 335-472).
IterationAt(ls, i, position, pointer, pointer_down, off, rng) ==
    LET k == ls.curve[i + 1]
        selected == i = ls.sel
    IN  IF ~InRect(position) THEN ls
        ELSE IF selected /\ ls.dragging
        THEN CHOOSE r \in {AfterDrag(drag, i, k.time, k.value, position, pointer,
                                     pointer_down, off, rng) :
                           drag \in {DragStep(ls, i, position, pointer, off, rng)}} : TRUE
        ELSE IF selected
        THEN CHOOSE r \in {DotStep(tan, i, TRUE, position, pointer, pointer_down, FALSE) :
                           tan \in {TangentStep(ls, i, k.time, k.value, position, pointer,
                                                pointer_down, off, rng)}} : TRUE
        ELSE DotStep(ls, i, FALSE, position, pointer, pointer_down, FALSE)

\* One iteration of `for i in 0..curve.len()` (lines 326-473).
Iteration(ls, i, pointer, pointer_down, off, rng) ==
    CHOOSE r \in {IterationAt(ls, i, position, pointer, pointer_down, off, rng) :
                  position \in {ToScreen(off, rng, ls.curve[i + 1].time,
                                         ls.curve[i + 1].value)}} : TRUE

\* for i in 0..curve.len(): after[j] is the loop state after j iterations.
KeyframeLoop(ls0, n, pointer, pointer_down, off, rng) ==
    LET after[j \in 0..n] ==
            IF j = 0 THEN ls0
            ELSE CHOOSE r \in {Iteration(prev, j - 1, pointer, pointer_down, off, rng) :
                               prev \in {after[j - 1]}} : TRUE
    IN  after[n]

(***************************************************************************)
(* One frame of ui_example (lines 100-475).                                *)
(***************************************************************************)
PointerPosition(in) == IF in.hover.some THEN in.hover ELSE NoPointer

\* Variant: the index the insertion reports is stored as it is, rejected or not.
InsertKeyUnmapped(c, t, v) ==
    CHOOSE r \in {[curve |-> ins.curve, sel |-> ins.ret, ret |-> ins.ret] :
                  ins \in {CurveInsert(c, t, v, "Hermite")}} : TRUE
\* The insertion of a keyframe (t, v) and the selection it reports (lines 303-309).
InsertKey(c, t, v) ==
    CHOOSE r \in {[curve |-> ins.curve,
                   sel |-> IF ins.ret = NoIndex THEN USIZE_MAX ELSE ins.ret,
                   ret |-> ins.ret] :
                  ins \in {CurveInsert(c, t, v, "Hermite")}} : TRUE

\* Variant: the insertion leaves the selection as it was.
InsertStepKeepSelection(c, sel, in, off, rng) ==
    IF in.key_i
    THEN CHOOSE r \in {[InsertKey(c, t, Sample(c, t)) EXCEPT !.sel = sel] :
                       t \in {ToCurveX(off, rng, PointerPosition(in).x)}} : TRUE
    ELSE [curve |-> c, sel |-> sel, ret |-> NoIndex]
\* Insert keyframe (lines 289-313).
InsertStep(c, sel, in, off, rng) ==
    IF in.key_i
    THEN CHOOSE r \in {InsertKey(c, t, Sample(c, t)) :
                       t \in {ToCurveX(off, rng, PointerPosition(in).x)}} : TRUE
    ELSE [curve |-> c, sel |-> sel, ret |-> NoIndex]

\* Variant: the keyframe is removed but the selection is not cleared.
DeleteStepKeepSelection(c, sel, in) ==
    IF sel # USIZE_MAX /\ in.key_d
    THEN [curve |-> CurveRemove(c, sel % (CURSOR_MAX + 1)), sel |-> sel]
    ELSE [curve |-> c, sel |-> sel]
\* Delete selected keyframe (lines 315-323).
DeleteStep(c, sel, in) ==
    IF sel # USIZE_MAX /\ in.key_d
    THEN [curve |-> CurveRemove(c, sel % (CURSOR_MAX + 1)), sel |-> USIZE_MAX]
    ELSE [curve |-> c, sel |-> sel]

\* Variant: the drag flag is never reset.
DragResetNever(drg, in) == drg
\* if !pointer_down { dragging = false } (lines 285-287).
DragReset(drg, in) == IF ~in.pointer_down THEN FALSE ELSE drg

\* The loop state at the start of the keyframe loop.
LoopStart(del, drg) ==
    [curve |-> del.curve, sel |-> del.sel, dragging |-> drg,
     tdrag |-> tangent_drag, hits |-> {}, log |-> <<>>, edits |-> <<>>]

\* The interpolation and tangent_control of every keyframe, by index.
Modes(c) == [j \in 1..Len(c) |-> <<c[j].interpolation, c[j].tangent_control>>]

\* What the frame read and did: view and menu are the viewport and the curve
\* after input handling and the context menu, ins and del the results of the
\* insert and delete blocks, ls the state after the keyframe loop.
Observed(in, view, menu, ins, del, ls) ==
    [hover |-> in.hover, pointer_down |-> in.pointer_down,
     key_i |-> in.key_i, key_d |-> in.key_d, choice |-> in.choice,
     view |-> ViewKind(in), scroll |-> in.scroll,
     anchor |-> IF in.hover.some
                THEN Pos(ToCurveX(display_offset, display_range, in.hover.x),
                         ToCurveY(display_offset, display_range, in.hover.y))
                ELSE Pos(R(0), R(0)),
     preoffset |-> display_offset,
     prerange |-> display_range,
     premodes |-> Modes(curve),
     presel |-> selected_keyframe,
     predragging |-> dragging,
     prelen |-> CurveLen(curve),
     selHovered |-> /\ ValidIndex(curve, selected_keyframe)
                    /\ view.rng.x[1] # 0 /\ view.rng.y[1] # 0
                    /\ \E position \in {ToScreen(view.off, view.rng,
                                                 curve[selected_keyframe + 1].time,
                                                 curve[selected_keyframe + 1].value)} :
                          Hovered(PointerPosition(in), position, SELECT_RADIUS),
     insRet |-> ins.ret,
     sampled |-> IF in.key_i
                 THEN Sample(menu, ToCurveX(view.off, view.rng, PointerPosition(in).x))
                 ELSE R(0),
     insKey |-> IF ins.ret # NoIndex THEN <<ins.curve[ins.ret + 1]>> ELSE <<>>,
     selAfterInsert |-> ins.sel,
     selAfterDelete |-> del.sel,
     lenAfterDelete |-> CurveLen(del.curve),
     curveChanged |-> ls.curve # curve,
     hits |-> ls.hits,
     log |-> ls.log,
     edits |-> ls.edits]

\* One frame of ui_example on the input snapshot `in`, block by block.
Apply(in) ==
    /\ frames < MaxFrames
    /\ \E view \in {ViewStep(display_offset, display_range, in)} :
       \E menu \in {MenuStep(curve, selected_keyframe, popup_open, in)} :
       \E ins \in {InsertStep(menu, selected_keyframe, in, view.off, view.rng)} :
       \E del \in {DeleteStep(ins.curve, ins.sel, in)} :
       \E ls0 \in {LoopStart(del, DragReset(dragging, in))} :
       \E pointer \in {PointerPosition(in)} :
       \E ls \in {KeyframeLoop(ls0, CurveLen(del.curve), pointer, in.pointer_down,
                               view.off, view.rng)} :
            /\ display_offset' = view.off
            /\ display_range' = view.rng
            /\ curve' = ls.curve
            /\ selected_keyframe' = ls.sel
            /\ dragging' = ls.dragging
            /\ tangent_drag' = ls.tdrag
            /\ popup_open' = PopupStep(popup_open, in)
            /\ frames' = frames + 1
            /\ last' = Observed(in, view, menu, ins, del, ls)


(***************************************************************************)
(* Initial state (main, lines 27-46) and the frames the host may run.      *)
(***************************************************************************)
InitTimes == <<R(0), R(1), Q(13, 10), Q(8, 5), Q(17, 10), Q(9, 5), Q(19, 10), R(2)>>
InitValues == <<R(3), R(0), R(1), R(0), Q(1, 2), R(0), Q(1, 4), R(0)>>

NoFrame ==
    [hover |-> NoPointer, pointer_down |-> FALSE, key_i |-> FALSE, key_d |-> FALSE,
     choice |-> "none", view |-> "none", scroll |-> R(0),
     anchor |-> Pos(R(0), R(0)), preoffset |-> Pos(R(0), Q(-1, 2)),
     prerange |-> Pos(R(2), Q(7, 2)),
     premodes |-> [j \in 1..Len(InitTimes) |-> <<"Hermite", "Auto">>],
     presel |-> USIZE_MAX, predragging |-> FALSE, prelen |-> Len(InitTimes),
     selHovered |-> FALSE, insRet |-> NoIndex, sampled |-> R(0),
     insKey |-> <<>>, selAfterInsert |-> USIZE_MAX, selAfterDelete |-> USIZE_MAX,
     lenAfterDelete |-> Len(InitTimes), curveChanged |-> FALSE, hits |-> {},
     log |-> <<>>, edits |-> <<>>]

Init ==
    /\ dragging = FALSE
    /\ selected_keyframe = USIZE_MAX
    /\ display_offset = Pos(R(0), Q(-1, 2))
    /\ display_range = Pos(R(2), Q(7, 2))
    /\ curve = with_auto_tangents(InitTimes, InitValues)
    /\ tangent_drag = "No"
    /\ popup_open = FALSE
    /\ frames = 0
    /\ last = NoFrame

\* Pointer positions on the canvas: on keyframe 1; inside the hit squares of
\* keyframes 5 and 6 at once; on empty canvas; on empty canvas between
\* keyframes 2 and 3; on empty canvas at the time of keyframe 2.
OnKey1 == At(80, 140)
OnCluster == At(141, 135)
OnEmpty == At(45, 90)
Between23 == At(115, 115)
AboveKey2 == At(101, 60)
Hovers == {NoPointer, OnKey1, OnCluster, OnEmpty, Between23, AboveKey2}
ViewHovers == {NoPointer, OnKey1}
Scrolls == {0, -140, 70, 140, 280}
Pans == {NoPan, PanBy(14, -14)}

\* A frame with pointer, primary button and insert/delete keys.
FramePointer ==
    \E hover \in Hovers, down \in BOOLEAN, keyI \in BOOLEAN, keyD \in BOOLEAN :
        Apply(Input(hover, down, keyI, keyD, NoPan, 0, FALSE, FALSE, "none"))

\* A frame with a pan drag and/or scroll input.
FrameView ==
    \E hover \in ViewHovers, down \in BOOLEAN, pan \in Pans, scroll \in Scrolls,
       command \in BOOLEAN :
        /\ pan.on \/ scroll # 0
        /\ Apply(Input(hover, down, FALSE, FALSE, pan, scroll, command, FALSE, "none"))

\* A frame that opens the context menu or activates one of its options.
FrameMenu ==
    \E hover \in ViewHovers, secondary \in BOOLEAN, choice \in MenuChoices \cup {"none"} :
        /\ secondary \/ choice # "none"
        /\ choice # "none" => popup_open
        /\ Apply(Input(hover, FALSE, FALSE, FALSE, NoPan, 0, FALSE, secondary, choice))

Next == FramePointer \/ FrameView \/ FrameMenu

Spec == Init /\ [][Next]_vars

(***************************************************************************)
(* Tangent editing.  The frames above leave every keyframe Auto; the states *)
(* below are those the editor is in after keyframe 2 has been selected and  *)
(* given a tangent mode through the context menu (and, possibly, Linear     *)
(* interpolation after it), the button released and the menu closed.        *)
(* `frames` counts the frames run from there.                               *)
(***************************************************************************)
TangentKey == 2
TangentModes == {"Auto", "Free", "Broken"}

\* The curve after `choice` has been activated in the menu for keyframe 2.
Chosen(c, choice) == MenuStep(c, TangentKey, TRUE, [choice |-> choice])

InitTangent ==
    /\ dragging = FALSE
    /\ selected_keyframe = TangentKey
    /\ display_offset = Pos(R(0), Q(-1, 2))
    /\ display_range = Pos(R(2), Q(7, 2))
    /\ \E choice \in TangentModes, linear \in BOOLEAN :
          \E c \in {Chosen(with_auto_tangents(InitTimes, InitValues), choice)} :
              curve = IF linear THEN Chosen(c, "Linear") ELSE c
    /\ tangent_drag = "No"
    /\ popup_open = FALSE
    /\ frames = 0
    /\ last = NoFrame

\* Pointer positions: inside the hit square of the in-handle of keyframe 2 and
\* of its out-handle (tangent 0: the handles are 50 pixels left and right of
\* the keyframe at (101, 100)); on the keyframe; on empty canvas.
OnIn == At(51, 96)
OnOut == At(146, 104)
OnKey2 == At(101, 100)
OffHandles == At(51, 60)
TangentHovers == {NoPointer, OnIn, OnOut, OnKey2, OffHandles}

\* A frame with pointer and primary button.
TangentPointer ==
    \E hover \in TangentHovers, down \in BOOLEAN :
        Apply(Input(hover, down, FALSE, FALSE, NoPan, 0, FALSE, FALSE, "none"))

\* A frame in which the delete key is pressed.
TangentDelete ==
    \E hover \in {NoPointer, OnIn}, down \in BOOLEAN :
        Apply(Input(hover, down, FALSE, TRUE, NoPan, 0, FALSE, FALSE, "none"))

NextTangent == TangentPointer \/ TangentDelete \/ FrameMenu

SpecTangent == InitTangent /\ [][NextTangent]_vars

(***************************************************************************)
(* Properties.  `last` holds the inputs and observations of the frame that *)
(* produced the current state.                                             *)
(***************************************************************************)
SetMin(S) == CHOOSE m \in S : \A x \in S : m <= x
SetMax(S) == CHOOSE m \in S : \A x \in S : x <= m
Sorted(c) == \A j \in 1..(Len(c) - 1) : RLt(c[j].time, c[j + 1].time)
Ran == frames > 0
Positive(rng) == RLt(R(0), rng.x) /\ RLt(R(0), rng.y)
DragCalls(log) == {p \in 1..Len(log) : log[p].op \in {"set_value", "set_time"}}
Reorders(log) == {p \in 1..Len(log) : log[p].op = "set_time" /\ log[p].ret # NoIndex}

\* C1 (as stated): dragging changes from false to true only in a frame where
\* the primary button goes from not pressed in the previous frame to pressed in
\* this frame while the pointer is inside a keyframe's hit region.
C1_EdgeTriggeredDragStart ==
    [][(~dragging /\ dragging') =>
          (~last.pointer_down /\ last'.pointer_down /\ last'.hits # {})]_vars

\* The case of C2: the button is pressed with the pointer inside the hit region
\* of two or more visible keyframes, none of them selected before the frame.
MultiHit ==
    /\ Ran
    /\ last.pointer_down
    /\ Cardinality(last.hits) >= 2
    /\ last.presel \notin last.hits

\* C2 (as stated): with the button pressed inside the hit region of two or more
\* visible keyframes, none selected before the frame, the keyframe selected at
\* the end of the keyframe loop is the one with the lowest index among those hit.
C2_LowestIndexWins == MultiHit => selected_keyframe = SetMin(last.hits)

\* C2 (amended): in that case the keyframe selected at the end of the keyframe
\* loop is the one with the highest index among those hit.
C2_HighestIndexWins == MultiHit => selected_keyframe = SetMax(last.hits)

C2_Witness ==
    /\ MultiHit
    /\ last.presel = USIZE_MAX
    /\ selected_keyframe = SetMax(last.hits)
    /\ selected_keyframe # SetMin(last.hits)

\* C3 (as stated): if a keyframe is selected at the start of a frame, the button
\* is not pressed, the pointer is not inside that keyframe's hit region and no
\* insert or delete key is pressed, then at the end of the frame nothing is selected.
C3_Deselect ==
    (/\ Ran
     /\ last.presel # USIZE_MAX
     /\ ~last.pointer_down
     /\ ~last.selHovered
     /\ ~last.key_i
     /\ ~last.key_d) => selected_keyframe = USIZE_MAX

\* The case of C4: the delete key is pressed and the insert key is not.
DeleteFrame == Ran /\ last.key_d /\ ~last.key_i

\* C4 (as stated): when the delete key is pressed while a keyframe is selected,
\* at the end of the frame nothing is selected and the curve has exactly one
\* keyframe fewer; with nothing selected the delete key leaves the curve unchanged.
C4_Delete ==
    DeleteFrame =>
        IF last.presel # USIZE_MAX
        THEN selected_keyframe = USIZE_MAX /\ Len(curve) = last.prelen - 1
        ELSE ~last.curveChanged

\* C4 (amended): when the delete key is pressed while a keyframe is selected,
\* the delete step clears the selection and removes exactly one keyframe, and at
\* the end of the frame the selection is none unless the button is pressed on a
\* keyframe in that frame, which is then the selection; with nothing selected
\* the delete key leaves the curve unchanged.
C4_DeleteThenLoop ==
    DeleteFrame =>
        IF last.presel # USIZE_MAX
        THEN /\ last.selAfterDelete = USIZE_MAX
             /\ last.lenAfterDelete = last.prelen - 1
             /\ Len(curve) = last.prelen - 1
             /\ \/ selected_keyframe = USIZE_MAX
                \/ last.pointer_down /\ selected_keyframe \in last.hits
        ELSE ~last.curveChanged

C4_Witness ==
    /\ DeleteFrame
    /\ last.presel # USIZE_MAX
    /\ Len(curve) = last.prelen - 1
    /\ last.pointer_down
    /\ selected_keyframe \in last.hits

\* C5: when set_time(i, t) returns Some(k) for the dragged keyframe, the
\* selection becomes k and nothing more runs in iteration i: the next thing
\* recorded is the end of the iteration, with k selected.  When set_time returns
\* None the iteration runs on with index i and ends with i selected.
C5_ReorderRetargeting ==
    \A p \in 1..Len(last.log) :
        LET e == last.log[p]
        IN  e.op = "set_time" =>
                IF e.ret # NoIndex
                THEN /\ p < Len(last.log)
                     /\ last.log[p + 1] = Ev("end", e.it, NoIndex, e.ret)
                ELSE \E q \in (p + 1)..Len(last.log) :
                        /\ last.log[q] = Ev("end", e.it, NoIndex, e.it)
                        /\ \A r \in (p + 1)..q : last.log[r].it = e.it

C5_Witness ==
    \E p \in Reorders(last.log) :
        /\ p < Len(last.log)
        /\ last.log[p + 1].op = "end"
        /\ last.log[p].ret # last.log[p].it
        /\ last.log[p].sel = last.log[p].it

\* C6: the curve's keyframe times are strictly increasing by index.
C6_Sortedness == Sorted(curve)

C6_Witness ==
    /\ Reorders(last.log) # {}
    /\ Len(curve) >= 2
    /\ Sorted(curve)

\* The index the insertion reported, as a selection.
InsertedOrNone == IF last.insRet # NoIndex THEN last.insRet ELSE USIZE_MAX
\* The inserted keyframe has the time under the pointer, the value the curve had
\* there before the insertion, and Hermite interpolation.
InsertedKeyRight ==
    last.insRet # NoIndex =>
        /\ last.insKey[1].time = ToCurveX(display_offset, display_range, last.hover.x)
        /\ last.insKey[1].value = last.sampled
        /\ last.insKey[1].interpolation = "Hermite"

\* C7 (as stated): when the insert key is pressed the selection becomes the index
\* returned for the new keyframe, or none if the insertion was rejected, and at
\* the end of the frame the selection designates the new keyframe or is none.
C7_InsertSelection ==
    (Ran /\ last.key_i) =>
        /\ last.selAfterInsert = InsertedOrNone
        /\ InsertedKeyRight
        /\ selected_keyframe \in {USIZE_MAX, InsertedOrNone}

\* C7 (amended): when the insert key is pressed the insert step sets the
\* selection to the index returned for the new keyframe, or to none if the
\* insertion was rejected; at the end of the frame the selection is that index
\* or none, unless the button is pressed on a keyframe in that frame, which is
\* then the selection.
C7_InsertThenLoop ==
    (Ran /\ last.key_i) =>
        /\ last.selAfterInsert = InsertedOrNone
        /\ InsertedKeyRight
        /\ \/ selected_keyframe \in {USIZE_MAX, InsertedOrNone}
           \/ last.pointer_down /\ selected_keyframe \in last.hits

C7_Witness ==
    /\ Ran
    /\ last.key_i
    /\ last.insRet # NoIndex
    /\ last.insKey[1].value = last.sampled
    /\ last.pointer_down
    /\ selected_keyframe \in last.hits
    /\ selected_keyframe # last.insRet

\* C8: at the end of every frame in which the primary button is not pressed,
\* dragging is false, and in such a frame neither set_value nor set_time is called.
C8_DragSafetyReset ==
    (Ran /\ ~last.pointer_down) => (~dragging /\ DragCalls(last.log) = {})

C8_Witness ==
    /\ Ran
    /\ ~last.pointer_down
    /\ last.predragging
    /\ last.presel # USIZE_MAX
    /\ ~dragging

\* The case of C9: a zoom step on a viewport with positive range.
ZoomFrame ==
    /\ Ran
    /\ last.view \in {"zoomx", "zoomy"}
    /\ last.hover.some
    /\ Positive(last.prerange)

\* C9: one zoom step leaves the curve-space coordinate under the pointer
\* unchanged on the zoomed axis.
C9_ZoomAnchoring ==
    ZoomFrame =>
        IF last.view = "zoomx"
        THEN ToCurveX(display_offset, display_range, last.hover.x) = last.anchor.x
        ELSE ToCurveY(display_offset, display_range, last.hover.y) = last.anchor.y

C9_Witness ==
    /\ ZoomFrame
    /\ last.view = "zoomy"
    /\ last.scroll # R(0)
    /\ display_range.y # last.prerange.y
    /\ ToCurveY(display_offset, display_range, last.hover.y) = last.anchor.y

\* C10 (as stated): after any sequence of pan and zoom gestures both components
\* of display_range are strictly positive.
C10_NonDegenerateViewport == Positive(display_range)

\* The tangent setter calls of the latest frame, in call order.
Edits == {last.edits[p] : p \in 1..Len(last.edits)}
InLimit(m) == RLe(R(-TANGENT_LIMIT), m) /\ RLe(m, R(TANGENT_LIMIT))

\* C11: a tangent edit on a Broken keyframe sets only the dragged side (the
\* in-handle calls set_in_tangent, the out-handle set_out_tangent, and the other
\* side keeps its value); on any other editable keyframe the slope is written to
\* both sides; and the slope written lies within [-1e5, 1e5].
C11_TangentEditModeRule ==
    \A e \in Edits :
        /\ InLimit(e.slope)
        /\ IF e.before.tangent_control = "Broken"
           THEN IF e.side = "In"
                THEN /\ e.op = "set_in_tangent"
                     /\ e.after.in_tangent = e.slope
                     /\ e.after.out_tangent = e.before.out_tangent
                ELSE /\ e.op = "set_out_tangent"
                     /\ e.after.out_tangent = e.slope
                     /\ e.after.in_tangent = e.before.in_tangent
           ELSE /\ e.after.in_tangent = e.slope
                /\ e.after.out_tangent = e.slope

C11_Witness ==
    \E e \in Edits :
        /\ e.before.tangent_control = "Broken"
        /\ e.side = "In"
        /\ e.slope # e.before.out_tangent
        /\ e.after.in_tangent = e.slope
        /\ e.after.out_tangent = e.before.out_tangent

\* C12: a tangent setter is called only on a keyframe that is Hermite, neither
\* Auto nor Flat, and the selected keyframe at the time of the call.
C12_TangentEditGuard ==
    \A e \in Edits :
        /\ e.before.interpolation = "Hermite"
        /\ e.before.tangent_control \notin {"Auto", "Flat"}
        /\ e.sel = e.it

C12_Witness ==
    /\ last.presel = TangentKey
    /\ last.pointer_down
    /\ \E e \in Edits :
        /\ e.it = TangentKey
        /\ e.sel = TangentKey
        /\ e.before.tangent_control = "Free"
        /\ e.after # e.before

\* Screen points of the interaction rectangle (two corners and interior points)
\* and curve-space values, on which the mapping is compared.
ScreenPoints ==
    {Pos(R(10), R(20)), Pos(R(150), R(160)), Pos(R(80), R(140)), Pos(R(45), R(90)),
     Pos(R(141), R(135))}
Values == {Q(-1, 2), R(0), Q(1, 4), R(1), R(3)}
NonZero(rng) == rng.x[1] # 0 /\ rng.y[1] # 0

\* Screen to curve space and back, under the current viewport.
RoundTrip(p) ==
    ToScreen(display_offset, display_range,
             ToCurveX(display_offset, display_range, p.x),
             ToCurveY(display_offset, display_range, p.y)) = p
ScreenY(v) == ToScreen(display_offset, display_range, R(0), v).y
YDecreases == \A v \in Values, w \in Values : RLt(v, w) => RLt(ScreenY(w), ScreenY(v))

\* C13: under a viewport whose display_range is non-zero on both
\* axes, a screen point of the interaction rectangle mapped to curve space and
\* back is itself, and the screen Y of a curve-space point decreases as its
\* value increases.
C13_RoundTripAndInversion ==
    NonZero(display_range) => ((\A p \in ScreenPoints : RoundTrip(p)) /\ YDecreases)

\* C14: in a frame that starts with no valid selection, activating an option of
\* the context menu leaves the interpolation and the tangent_control of every
\* keyframe as they were.
C14_MenuDisabledWithoutSelection ==
    (Ran /\ last.choice # "none" /\ ~(last.presel < last.prelen)) =>
        Modes(curve) = last.premodes

C14_Witness ==
    /\ Ran
    /\ last.choice = "Step"
    /\ last.presel = USIZE_MAX
    /\ Len(curve) > 0
    /\ Modes(curve) = last.premodes

\* C15: a frame that neither pans nor zooms (no pan drag, and no scroll or no
\* hovering pointer) leaves display_offset and display_range as they were, and a
\* frame that pans leaves display_range as it was, scroll input or not.
C15_ViewportFrameCondition ==
    Ran =>
        /\ (\/ last.view = "none"
            \/ last.view \in {"zoomx", "zoomy"} /\ last.scroll = R(0)) =>
                (display_offset = last.preoffset /\ display_range = last.prerange)
        /\ last.view = "pan" => display_range = last.prerange

C15_Witness ==
    /\ Ran
    /\ last.view = "pan"
    /\ last.hover.some
    /\ last.scroll # R(0)
    /\ display_offset # last.preoffset
    /\ display_range = last.prerange

\* The index of keyframe k after the set_time calls of log from entry p on.
RECURSIVE FollowFrom(_, _, _)
FollowFrom(log, p, k) ==
    IF p > Len(log) THEN k
    ELSE FollowFrom(log, p + 1,
                    IF log[p].op = "set_time" /\ log[p].it = k /\ log[p].ret # NoIndex
                    THEN log[p].ret ELSE k)
Followed(log, k) == FollowFrom(log, 1, k)

\* C16 (as stated): in a frame that starts with a keyframe selected and being
\* dragged, with the button held and no insert or delete key pressed, the
\* selection at the end of the frame is that keyframe, at the index its
\* reorderings have taken it to.
C16_DragIdentityStability ==
    (/\ Ran
     /\ last.predragging
     /\ last.presel < last.prelen
     /\ last.pointer_down
     /\ ~last.key_i
     /\ ~last.key_d) => selected_keyframe = Followed(last.log, last.presel)

EditSides(edits) == {edits[p].side : p \in 1..Len(edits)}

\* C17 (as stated): in every frame at most one of the two handles edits the
\* curve, and with the button held tangent_drag never goes from In to Out or
\* from Out to In.
C17_TangentDragExclusive ==
    [][/\ Cardinality(EditSides(last'.edits)) <= 1
       /\ (tangent_drag = "In" /\ last'.pointer_down) => tangent_drag' # "Out"
       /\ (tangent_drag = "Out" /\ last'.pointer_down) => tangent_drag' # "In"]_vars

\* C18: at the end of every frame selected_keyframe is none or an index below
\* the length of the curve.
C18_SelectionIndexValid ==
    selected_keyframe = USIZE_MAX \/ ValidIndex(curve, selected_keyframe)

C18_Witness ==
    /\ Ran
    /\ last.key_i
    /\ last.insRet = NoIndex
    /\ last.presel # USIZE_MAX
    /\ selected_keyframe = USIZE_MAX

\* C19 (as stated): at the end of every frame in which the button is not pressed
\* or after which no keyframe is selected, tangent_drag is No.
C19_NoStaleTangentDrag ==
    (Ran /\ (~last.pointer_down \/ selected_keyframe = USIZE_MAX)) =>
        tangent_drag = "No"

\* C20 (as stated): in a frame where the insert key is pressed while there is no
\* pointer position, no keyframe is inserted and the curve and the selection
\* are as they were.
C20_InsertNeedsPointer ==
    (Ran /\ last.key_i /\ ~last.hover.some) =>
        /\ last.insRet = NoIndex
        /\ ~last.curveChanged
        /\ selected_keyframe = last.presel

\* The screen position, under the current viewport, of the keyframe that was
\* selected at the start of the latest frame.
DraggedPosition ==
    LET k == curve[Followed(last.log, last.presel) + 1]
    IN  ToScreen(display_offset, display_range, k.time, k.value)

\* C21 (as stated): in a frame that starts with a keyframe selected and being
\* dragged, with the button held and no insert or delete key pressed, a drag
\* that moves the keyframe leaves it inside the interaction rectangle, and with
\* no pointer position neither set_value nor set_time is called.
C21_DragKeepsReachable ==
    (/\ Ran
     /\ last.predragging
     /\ last.presel < last.prelen
     /\ last.pointer_down
     /\ ~last.key_i
     /\ ~last.key_d) =>
        /\ ~last.hover.some => DragCalls(last.log) = {}
        /\ DragCalls(last.log) # {} => InRect(DraggedPosition)


====
